---- MODULE Spec2Model ----
(***************************************************************************)
(* Checkout / order-splitting engine of the discount e-commerce API.       *)
(*                                                                         *)
(* The model follows CheckoutView.post (src/api/orders/views.py).  Money   *)
(* is kept in integer cents.  Database writes made inside                  *)
(* transaction.atomic() are buffered in the request and become visible     *)
(* when the atomic block is left; an exception inside the block discards   *)
(* them.  Reads see the committed database.                                *)
(***************************************************************************)
EXTENDS Integers, Sequences, FiniteSets, TLC

(* ---------------------------- bounds ---------------------------------- *)
MaxCart == 2
MaxAdds == 2
MaxWideCart == 4

(* ------------------------- fixed test data ---------------------------- *)
None == "None"

Requests == {"r1", "r2"}

Products == {"pA", "pB", "pC", "pD", "pE"}

\* product rows: vendor_id (None = platform product), price in cents, stock
Catalog ==
    [pA |-> [vendor_id |-> "v1", price |-> 1000, stock |-> 2],
     pB |-> [vendor_id |-> "v2", price |-> 1000, stock |-> 1],
     pC |-> [vendor_id |-> "v3", price |-> 1000, stock |-> 1],
     pD |-> [vendor_id |-> None, price |-> 500,  stock |-> 1],
     pE |-> [vendor_id |-> "v1", price |-> 250,  stock |-> 0]]

\* quantities a cart line may hold
Quantities == {1, 2}

\* coupon rows: code, fixed amount in cents, minimum subtotal in cents
Coupons ==
    [SAVE2C |-> [amount |-> 2,   min_subtotal |-> 0],
     SAVE3  |-> [amount |-> 300, min_subtotal |-> 1500]]

CouponCodes == {"SAVE2C", "SAVE3"}

\* what a request may send as coupon_code: nothing, a code of no coupon, a code
CodeInputs == {None, "BOGUS"} \cup CouponCodes

\* address books of the user: is_default flag and whether the shipping
\* collaborator supports the address's country
AddressBooks ==
    {<<>>,
     <<[id |-> 1, is_default |-> FALSE, supported |-> TRUE]>>,
     <<[id |-> 1, is_default |-> FALSE, supported |-> TRUE],
       [id |-> 2, is_default |-> TRUE, supported |-> FALSE]>>}

(* --------------------------- arithmetic ------------------------------- *)
Max(a, b) == IF a >= b THEN a ELSE b

Min(a, b) == IF a <= b THEN a ELSE b

RECURSIVE Gcd(_, _)
Gcd(a, b) == IF b = 0 THEN a ELSE Gcd(b, a % b)

RECURSIVE StripFactor(_, _)
StripFactor(n, f) == IF n > 0 /\ n % f = 0 THEN StripFactor(n \div f, f) ELSE n

\* s / t has a finite decimal expansion (Decimal division is then exact)
Terminates(s, t) ==
    LET d == t \div Gcd(s, t) IN StripFactor(StripFactor(d, 2), 5) = 1

RECURSIVE SumSeq(_)
SumSeq(s) == IF s = <<>> THEN 0 ELSE Head(s) + SumSeq(Tail(s))

\* (discount * (sub / total)).quantize(Decimal("0.01")) in cents.  The default
\* decimal context rounds half-even.  When the exact value is not a tie the
\* result is the nearest cent.  On an exact tie a terminating quotient is
\* exact and the tie is resolved to the even cent; a non-terminating quotient
\* is first rounded to 28 digits, which moves the product off the tie in a
\* direction that depends on digits beyond integer width: both cents are kept.
PortionOutcomes(disc, sub, total) ==
    LET num == disc * sub
        lo  == num \div total
        rem == num % total
    IN  IF 2 * rem < total THEN {lo}
        ELSE IF 2 * rem > total THEN {lo + 1}
        ELSE IF Terminates(sub, total)
             THEN {IF lo % 2 = 0 THEN lo ELSE lo + 1}
             ELSE {lo, lo + 1}

(* ------------------- collaborators outside the view ------------------- *)
\* user.addresses.filter(is_default=True).first() or user.addresses.first()
\* (<<>> stands for "no address")
ResolveAddress(book) ==
    LET defaults == SelectSeq(book, LAMBDA a : a.is_default)
    IN  IF defaults # <<>> THEN <<Head(defaults)>>
        ELSE IF book # <<>> THEN <<Head(book)>>
        ELSE <<>>

\* calculate_shipping(subtotal, address): a flat fee, or None when the
\* address's country is not supported (is_none stands for the None result)
CalculateShipping(subtotal, address) ==
    IF address.supported
    THEN [is_none |-> FALSE, amount |-> 500]
    ELSE [is_none |-> TRUE, amount |-> 0]

\* calculate_tax(subtotal, address): ten percent of the subtotal
CalculateTax(subtotal, address) == (subtotal * 10) \div 100

\* coupon.is_valid_for_user(user, total_subtotal)
IsValidForUser(code, total_subtotal) ==
    total_subtotal >= Coupons[code].min_subtotal

\* coupon.calculate_discount(total_subtotal)
CalculateDiscount(code, total_subtotal) ==
    Min(Coupons[code].amount, total_subtotal)

(* ------------------- grouping and discount allocation ----------------- *)
VendorOf(item) == Catalog[item.product].vendor_id

RECURSIVE VendorIdsAcc(_, _)
VendorIdsAcc(items, acc) ==
    IF items = <<>> THEN acc
    ELSE LET v == VendorOf(Head(items))
         IN  VendorIdsAcc(Tail(items),
                          IF \E i \in 1..Len(acc) : acc[i] = v
                          THEN acc ELSE Append(acc, v))

\* keys of items_by_vendor, in dict insertion order (first occurrence)
VendorIds(items) == VendorIdsAcc(items, <<>>)

\* variant: items_by_vendor[vendor_id] = [item] keeps the last item only
ItemsOfVendorLast(items, vendor_id) ==
    LET m == SelectSeq(items, LAMBDA it : VendorOf(it) = vendor_id)
    IN  IF m = <<>> THEN m ELSE <<m[Len(m)]>>

\* items_by_vendor[vendor_id]
ItemsOfVendor(items, vendor_id) ==
    SelectSeq(items, LAMBDA it : VendorOf(it) = vendor_id)

\* vendor_subtotal += item.product.price * item.quantity
Subtotal(items) ==
    SumSeq([i \in 1..Len(items) |->
                Catalog[items[i].product].price * items[i].quantity])

\* subtotals_by_vendor, as a sequence parallel to VendorIds(items)
SubtotalsByVendor(items) ==
    LET ids == VendorIds(items)
    IN  [i \in 1..Len(ids) |-> Subtotal(ItemsOfVendor(items, ids[i]))]

\* variant: the last group is rounded like the others, no remainder
RECURSIVE AllocFromRounded(_, _, _, _, _)
AllocFromRounded(discount, subs, total, idx, remaining) ==
    IF idx > Len(subs) THEN {<<>>}
    ELSE UNION {{<<p>> \o rest :
                    rest \in AllocFromRounded(discount, subs, total, idx + 1,
                                              remaining - p)} :
                p \in PortionOutcomes(discount, subs[idx], total)}

RECURSIVE AllocFrom(_, _, _, _, _)
AllocFrom(discount, subs, total, idx, remaining) ==
    IF idx > Len(subs) THEN {<<>>}
    ELSE IF idx = Len(subs) THEN {<<remaining>>}
    ELSE UNION {{<<p>> \o rest :
                    rest \in AllocFrom(discount, subs, total, idx + 1,
                                       remaining - p)} :
                p \in PortionOutcomes(discount, subs[idx], total)}

\* discounts_by_vendor, as a sequence parallel to VendorIds(items); a set
\* because of PortionOutcomes
DiscountsByVendor(discount, subs, total) ==
    IF discount > 0 /\ total > 0
    THEN AllocFrom(discount, subs, total, 1, discount)
    ELSE {[i \in 1..Len(subs) |-> 0]}

(* ------------------------------ state --------------------------------- *)
VARIABLES
    addresses,    \* the user's address book
    cart,         \* the user's Cart row: exists, is_active, checked_out
    cartItems,    \* CartItem rows of the cart, in primary-key order
    stock,        \* Product.stock
    orders,       \* committed Order rows with their OrderItem rows
    usages,       \* committed CouponUsage rows
    nextItemId,   \* primary-key sequence of CartItem
    nextOrderId,  \* primary-key sequence of Order
    pc,           \* position of each checkout request
    loc,          \* local variables of each checkout request
    resp,         \* response of each checkout request
    committed,    \* the request's atomic block was left with writes
    ordersAtBegin, \* number of committed orders when the request began
    users,        \* User rows, in primary-key order
    vendors,      \* Vendor rows, in primary-key order
    orderRows,    \* Order rows as the order views read and update them
    signups,      \* position and local variables of each signup request
    edits,        \* position and local variables of each vendor update
    last          \* the request answered last by a vendor or order view

adminVars == <<users, vendors, orderRows, signups, edits, last>>

vars == <<addresses, cart, cartItems, stock, orders, usages, nextItemId,
          nextOrderId, pc, loc, resp, committed, ordersAtBegin, users,
          vendors, orderRows, signups, edits, last>>

db == <<cart, cartItems, stock, orders, usages>>

(* ------------------- users, vendors and their requests ------------------ *)
Signups == {"s1", "s2"}
Edits == {"e1"}

\* vendor names a signup or a rename may carry (already stripped)
VendorNames == {"My Store", "my store", "My-Store", "!!!"}
\* two addresses no account has and the address of the customer's account
Emails == {"new@x.io", "other@x.io", "customer@x.io"}
Reasons == {None, "", "fraud"}

\* name__iexact: two names match when they are equal up to letter case
Fold(name) == IF name = "My Store" THEN "my store"
              ELSE IF name = "My-Store" THEN "my-store"
              ELSE name

\* django.utils.text.slugify: lower case, runs of spaces and hyphens become
\* one hyphen, every other character that is not alphanumeric is dropped
Slugify(name) == IF name \in {"My Store", "my store", "My-Store"}
                 THEN "my-store"
                    ELSE ""

\* the accounts that exist before any vendor signs up
InitialUsers ==
    <<[email |-> "admin@x.io", role |-> "admin", is_staff |-> FALSE,
       is_superuser |-> FALSE, vendor |-> 0],
      [email |-> "manager@x.io", role |-> "manager", is_staff |-> FALSE,
       is_superuser |-> FALSE, vendor |-> 0],
      [email |-> "staff@x.io", role |-> "customer", is_staff |-> TRUE,
       is_superuser |-> FALSE, vendor |-> 0],
      [email |-> "root@x.io", role |-> "customer", is_staff |-> FALSE,
       is_superuser |-> TRUE, vendor |-> 0],
      [email |-> "customer@x.io", role |-> "customer", is_staff |-> FALSE,
       is_superuser |-> FALSE, vendor |-> 0]>>

NoSignup == [pc |-> "idle", vendor_name |-> "", email |-> "", user |-> 0]

NoEdit ==
    [pc |-> "idle", op |-> "", actor |-> 0, pk |-> 0, instance |-> <<>>]

NoLast ==
    [op |-> "", actor |-> 0, pk |-> 0, status |-> 0, detail |-> "",
     results |-> {}]

InitRequestsIdle ==
    /\ signups = [s \in Signups |-> NoSignup]
    /\ edits = [e \in Edits |-> NoEdit]
    /\ last = NoLast

\* no vendor has signed up and no order view has been used
InitDirectory ==
    /\ users = InitialUsers
    /\ vendors = <<>>
    /\ orderRows = <<>>
    /\ InitRequestsIdle

NoLoc ==
    [coupon_code |-> None, address |-> <<>>, cart_items |-> <<>>,
     vendor_ids |-> <<>>, coupon |-> None, discount |-> 0,
     discounts_by_vendor |-> <<>>, created_orders |-> <<>>,
     stock_writes |-> <<>>, shipping_warning |-> FALSE]

NoResp == [status |-> 0, detail |-> "", kind |-> "", orders |-> <<>>]

ErrorResp(detail) ==
    [status |-> 400, detail |-> detail, kind |-> "error", orders |-> <<>>]

InitRequests ==
    /\ pc = [r \in Requests |-> "idle"]
    /\ loc = [r \in Requests |-> NoLoc]
    /\ resp = [r \in Requests |-> NoResp]
    /\ committed = [r \in Requests |-> FALSE]
    /\ ordersAtBegin = [r \in Requests |-> 0]

InitTables ==
    /\ stock = [p \in Products |-> Catalog[p].stock]
    /\ orders = <<>>
    /\ usages = <<>>
    /\ nextOrderId = 1

\* state after construction: users and products exist, no cart yet
Init ==
    /\ addresses \in AddressBooks
    /\ cart = [exists |-> FALSE, is_active |-> FALSE, checked_out |-> FALSE]
    /\ cartItems = <<>>
    /\ nextItemId = 1
    /\ InitTables
    /\ InitRequests
    /\ InitDirectory

(* ------------------------ CheckoutView.post --------------------------- *)
Finish(r, response) ==
    /\ pc' = [pc EXCEPT ![r] = "done"]
    /\ loc' = [loc EXCEPT ![r] = NoLoc]
    /\ resp' = [resp EXCEPT ![r] = response]

\* variant: the emptiness check of the cart items is missing
BeginNoEmptyCheck(r, code) ==
    /\ pc[r] = "idle"
    /\ LET address == ResolveAddress(addresses)
       IN  IF address = <<>>
           THEN Finish(r, ErrorResp("No address found"))
           ELSE IF ~(cart.exists /\ cart.is_active)
           THEN Finish(r, ErrorResp("Cart is empty"))
           ELSE /\ pc' = [pc EXCEPT ![r] = "tx"]
                /\ loc' = [loc EXCEPT ![r] =
                              [NoLoc EXCEPT !.coupon_code = code,
                                            !.address = address]]
                /\ UNCHANGED resp
    /\ ordersAtBegin' = [ordersAtBegin EXCEPT ![r] = Len(orders)]
    /\ UNCHANGED adminVars
    /\ UNCHANGED <<addresses, db, nextItemId, nextOrderId, committed>>

\* lines 48-71: address, active cart and emptiness check, outside the
\* transaction
Begin(r, code) ==
    /\ pc[r] = "idle"
    /\ LET address == ResolveAddress(addresses)
       IN  IF address = <<>>
           THEN Finish(r, ErrorResp("No address found"))
           ELSE IF ~(cart.exists /\ cart.is_active)
           THEN Finish(r, ErrorResp("Cart is empty"))
           ELSE IF cartItems = <<>>
           THEN Finish(r, ErrorResp("Cart is empty"))
           ELSE /\ pc' = [pc EXCEPT ![r] = "tx"]
                /\ loc' = [loc EXCEPT ![r] =
                              [NoLoc EXCEPT !.coupon_code = code,
                                            !.address = address]]
                /\ UNCHANGED resp
    /\ ordersAtBegin' = [ordersAtBegin EXCEPT ![r] = Len(orders)]
    /\ UNCHANGED adminVars
    /\ UNCHANGED <<addresses, db, nextItemId, nextOrderId, committed>>

\* the rows cart_items.select_related("product") yields: each cart item with
\* its own copy of the product row (stock as read now)
ReadCartItems ==
    [i \in 1..Len(cartItems) |->
        [id |-> cartItems[i].id, product |-> cartItems[i].product,
         quantity |-> cartItems[i].quantity,
         stock |-> stock[cartItems[i].product]]]

\* lines 72-122: enter the atomic block, read and group the cart items,
\* apply the coupon, allocate the discount
Prepare(r) ==
    /\ pc[r] = "tx"
    /\ LET items == ReadCartItems
           vendor_ids == VendorIds(items)
           subs == SubtotalsByVendor(items)
           total_subtotal == SumSeq(subs)
           code == loc[r].coupon_code
       IN  IF code # None /\ code \notin CouponCodes
           THEN Finish(r, ErrorResp("Invalid coupon code."))
           ELSE IF code # None /\ ~IsValidForUser(code, total_subtotal)
           THEN Finish(r, ErrorResp("Coupon is not valid."))
           ELSE LET discount == IF code # None
                                THEN CalculateDiscount(code, total_subtotal)
                                ELSE 0
                IN  \E alloc \in DiscountsByVendor(discount, subs,
                                                   total_subtotal) :
                      /\ loc' = [loc EXCEPT ![r] =
                                   [@ EXCEPT !.cart_items = items,
                                             !.vendor_ids = vendor_ids,
                                             !.coupon = code,
                                             !.discount = discount,
                                             !.discounts_by_vendor = alloc]]
                      /\ pc' = [pc EXCEPT ![r] = "orders"]
                      /\ UNCHANGED resp
    /\ UNCHANGED adminVars
    /\ UNCHANGED <<addresses, db, nextItemId, nextOrderId, committed,
                   ordersAtBegin>>

\* lines 151-159: the OrderItem rows of one group
OrderItems(items) ==
    [i \in 1..Len(items) |->
        [product |-> items[i].product, quantity |-> items[i].quantity,
         price |-> Catalog[items[i].product].price,
         cart_item |-> items[i].id]]

\* variant: the decrement is not clamped at zero
StockWritesNoClamp(items) ==
    [i \in 1..Len(items) |->
        [product |-> items[i].product, cart_item |-> items[i].id,
         stock |-> items[i].stock - items[i].quantity]]

\* lines 160-161: item.product.stock = max(stock - quantity, 0); save()
StockWrites(items) ==
    [i \in 1..Len(items) |->
        [product |-> items[i].product, cart_item |-> items[i].id,
         stock |-> Max(items[i].stock - items[i].quantity, 0)]]

\* variant: the total leaves out the tax
NewOrderNoTax(r, id, vendor_id, items, vendor_discount, address, coupon) ==
    LET vendor_subtotal == Subtotal(items)
        quote == CalculateShipping(vendor_subtotal, address)
        shipping == IF quote.is_none THEN 0 ELSE quote.amount
        tax == CalculateTax(vendor_subtotal, address)
    IN  [id |-> id, req |-> r, vendor_id |-> vendor_id, status |-> "pending",
         total |-> vendor_subtotal + shipping - vendor_discount,
         discount |-> vendor_discount, tax |-> tax, shipping |-> shipping,
         coupon |-> coupon, items |-> OrderItems(items)]

\* lines 138-150: the Order row of one group
NewOrder(r, id, vendor_id, items, vendor_discount, address, coupon) ==
    LET vendor_subtotal == Subtotal(items)
        quote == CalculateShipping(vendor_subtotal, address)
        shipping == IF quote.is_none THEN 0 ELSE quote.amount
        tax == CalculateTax(vendor_subtotal, address)
    IN  [id |-> id, req |-> r, vendor_id |-> vendor_id, status |-> "pending",
         total |-> vendor_subtotal + shipping + tax - vendor_discount,
         discount |-> vendor_discount, tax |-> tax, shipping |-> shipping,
         coupon |-> coupon, items |-> OrderItems(items)]

\* the groups' stock writes, in the order the loop makes them
RECURSIVE GroupStockWrites(_, _, _)
GroupStockWrites(items, vendor_ids, k) ==
    IF k > Len(vendor_ids) THEN <<>>
    ELSE StockWrites(ItemsOfVendor(items, vendor_ids[k]))
            \o GroupStockWrites(items, vendor_ids, k + 1)

\* lines 124-162: the loop over items_by_vendor; every write stays inside the
\* transaction until it commits
CreateOrders(r) ==
    /\ pc[r] = "orders"
    /\ LET l == loc[r]
           address == Head(l.address)
           group(k) == ItemsOfVendor(l.cart_items, l.vendor_ids[k])
           created_orders ==
               [k \in 1..Len(l.vendor_ids) |->
                   NewOrder(r, nextOrderId + k - 1, l.vendor_ids[k], group(k),
                            l.discounts_by_vendor[k], address, l.coupon)]
           shipping_warning ==
               \E k \in 1..Len(l.vendor_ids) :
                   CalculateShipping(Subtotal(group(k)), address).is_none
       IN  /\ loc' = [loc EXCEPT ![r] =
                        [@ EXCEPT !.created_orders = created_orders,
                                  !.stock_writes =
                                      GroupStockWrites(l.cart_items,
                                                       l.vendor_ids, 1),
                                  !.shipping_warning = shipping_warning]]
           /\ nextOrderId' = nextOrderId + Len(l.vendor_ids)
    /\ pc' = [pc EXCEPT ![r] = "finalize"]
    /\ UNCHANGED adminVars
    /\ UNCHANGED <<addresses, db, nextItemId, resp, committed, ordersAtBegin>>

RECURSIVE ApplyWrites(_, _)
ApplyWrites(st, writes) ==
    IF writes = <<>> THEN st
    ELSE ApplyWrites([st EXCEPT ![Head(writes).product] = Head(writes).stock],
                     Tail(writes))

\* variant: one CouponUsage row per created order
NewUsagesPerOrder(r, coupon, created_orders) ==
    IF coupon # None
    THEN [i \in 1..Len(created_orders) |->
             [coupon |-> coupon, req |-> r, order |-> created_orders[i].id]]
    ELSE <<>>

\* lines 165-168: CouponUsage rows of one checkout
NewUsages(r, coupon, created_orders) ==
    IF coupon # None /\ created_orders # <<>>
    THEN <<[coupon |-> coupon, req |-> r, order |-> created_orders[1].id]>>
    ELSE <<>>

\* variant: the cart items are not deleted
FinalizeKeepCart(r) ==
    /\ pc[r] = "finalize"
    /\ LET l == loc[r]
       IN  /\ orders' = orders \o l.created_orders
           /\ stock' = ApplyWrites(stock, l.stock_writes)
           /\ usages' = usages \o NewUsages(r, l.coupon, l.created_orders)
    /\ cartItems' = cartItems
    /\ cart' = [cart EXCEPT !.checked_out = TRUE]
    /\ committed' = [committed EXCEPT ![r] = TRUE]
    /\ pc' = [pc EXCEPT ![r] = "respond"]
    /\ UNCHANGED adminVars
    /\ UNCHANGED <<addresses, nextItemId, nextOrderId, loc, resp,
                   ordersAtBegin>>

\* lines 164-174 and the exit of the atomic block: record the coupon usage,
\* empty the cart, mark it checked out, commit
Finalize(r) ==
    /\ pc[r] = "finalize"
    /\ LET l == loc[r]
       IN  /\ orders' = orders \o l.created_orders
           /\ stock' = ApplyWrites(stock, l.stock_writes)
           /\ usages' = usages \o NewUsages(r, l.coupon, l.created_orders)
    /\ cartItems' = <<>>
    /\ cart' = [cart EXCEPT !.checked_out = TRUE]
    /\ committed' = [committed EXCEPT ![r] = TRUE]
    /\ pc' = [pc EXCEPT ![r] = "respond"]
    /\ UNCHANGED adminVars
    /\ UNCHANGED <<addresses, nextItemId, nextOrderId, loc, resp,
                   ordersAtBegin>>

\* variant of Respond: the first order's payload is returned unwrapped
\* whenever at least one order was created
RespondUnwrapFirst(r) ==
    /\ pc[r] = "respond"
    /\ LET l == loc[r]
           serialized_orders ==
               [i \in 1..Len(l.created_orders) |->
                   [order |-> l.created_orders[i].id,
                    shipping_warning |-> l.shipping_warning]]
       IN  Finish(r, [status |-> 201, detail |-> "",
                      kind |-> IF Len(serialized_orders) >= 1
                               THEN "order" ELSE "orders",
                      orders |-> IF Len(serialized_orders) >= 1
                                 THEN <<Head(serialized_orders)>>
                                 ELSE serialized_orders])
    /\ UNCHANGED adminVars
    /\ UNCHANGED <<addresses, db, nextItemId, nextOrderId, committed,
                   ordersAtBegin>>

\* variant of Respond: the warning is attached to the first payload only
RespondWarnFirst(r) ==
    /\ pc[r] = "respond"
    /\ LET l == loc[r]
           serialized_orders ==
               [i \in 1..Len(l.created_orders) |->
                   [order |-> l.created_orders[i].id,
                    shipping_warning |-> l.shipping_warning /\ i = 1]]
       IN  Finish(r, [status |-> 201, detail |-> "",
                      kind |-> IF Len(serialized_orders) = 1
                               THEN "order" ELSE "orders",
                      orders |-> serialized_orders])
    /\ UNCHANGED adminVars
    /\ UNCHANGED <<addresses, db, nextItemId, nextOrderId, committed,
                   ordersAtBegin>>

\* lines 178-187: serialize the created orders and shape the response
Respond(r) ==
    /\ pc[r] = "respond"
    /\ LET l == loc[r]
           serialized_orders ==
               [i \in 1..Len(l.created_orders) |->
                   [order |-> l.created_orders[i].id,
                    shipping_warning |-> l.shipping_warning]]
       IN  Finish(r, [status |-> 201, detail |-> "",
                      kind |-> IF Len(serialized_orders) = 1
                               THEN "order" ELSE "orders",
                      orders |-> serialized_orders])
    /\ UNCHANGED adminVars
    /\ UNCHANGED <<addresses, db, nextItemId, nextOrderId, committed,
                   ordersAtBegin>>

\* lines 188-192: an exception raised by a call of the current step is
\* caught; inside the atomic block the buffered writes are discarded, after
\* it (serialization) they are already committed
Raise(r) ==
    /\ pc[r] \in {"tx", "orders", "finalize", "respond"}
    /\ Finish(r, ErrorResp("exception"))
    /\ UNCHANGED adminVars
    /\ UNCHANGED <<addresses, db, nextItemId, nextOrderId, committed,
                   ordersAtBegin>>

(* --------------------------- environment ------------------------------ *)
\* the cart subsystem: add-to-cart creates the cart when missing and adds
\* one CartItem row holding one piece of the product
AddToCart(p) ==
    /\ Len(cartItems) < MaxCart
    /\ nextItemId <= MaxAdds
    /\ cart' = [cart EXCEPT !.exists = TRUE, !.is_active = TRUE]
    /\ cartItems' = Append(cartItems,
                           [id |-> nextItemId, product |-> p, quantity |-> 1])
    /\ nextItemId' = nextItemId + 1
    /\ UNCHANGED adminVars
    /\ UNCHANGED <<addresses, stock, orders, usages, nextOrderId, pc, loc,
                   resp, committed, ordersAtBegin>>

Checkout(r) ==
    \/ \E code \in CodeInputs : Begin(r, code)
    \/ Prepare(r)
    \/ CreateOrders(r)
    \/ Finalize(r)
    \/ Respond(r)
    \/ Raise(r)

Next ==
    \/ \E r \in Requests : Checkout(r)
    \/ \E p \in Products : AddToCart(p)

Spec == Init /\ [][Next]_vars

(* ----------------- one checkout of an arbitrary cart ------------------ *)
\* carts with one line per product, up to MaxWideCart lines, each holding a
\* quantity of Quantities, in any order
WideCarts ==
    UNION {{[i \in 1..n |-> [id |-> i, product |-> c[i][1],
                             quantity |-> c[i][2]]] :
               c \in {d \in [1..n -> Products \X Quantities] :
                         \A i, j \in 1..n : i # j => d[i][1] # d[j][1]}} :
           n \in 0..MaxWideCart}

InitWide ==
    /\ addresses \in AddressBooks
    /\ cartItems \in WideCarts
    /\ cart = [exists |-> cartItems # <<>>, is_active |-> cartItems # <<>>,
               checked_out |-> FALSE]
    /\ nextItemId = Len(cartItems) + 1
    /\ InitTables
    /\ InitRequests
    /\ InitDirectory

NextWide == Checkout("r1")

SpecWide == InitWide /\ [][NextWide]_vars

(* ============================ properties ============================== *)
\* the Order rows committed by checkout r, in creation order
OrdersOf(r) == SelectSeq(orders, LAMBDA o : o.req = r)

\* sum over an order's items of price * quantity
OrderSubtotal(o) ==
    SumSeq([i \in 1..Len(o.items) |-> o.items[i].price * o.items[i].quantity])

SumDiscounts(os) == SumSeq([i \in 1..Len(os) |-> os[i].discount])

\* checkout r has committed and still holds what it read and computed
Committed(r) == pc[r] = "respond"

\* C1: for every checkout with a valid coupon and at least one vendor group,
\* the discounts stored on the orders it created sum to the coupon's total
\* computed discount exactly, whatever the subtotals and the rounding of the
\* non-last groups.
C1_DiscountSumExact ==
    \A r \in Requests :
        (Committed(r) /\ loc[r].coupon # None /\ OrdersOf(r) # <<>>)
            => SumDiscounts(OrdersOf(r)) = loc[r].discount

\* a checkout of three or more groups whose first portion was rounded
C1_Witness ==
    \E r \in Requests :
        /\ Committed(r)
        /\ loc[r].coupon # None
        /\ Len(OrdersOf(r)) >= 3
        /\ LET os == OrdersOf(r)
               total == SumSeq([i \in 1..Len(os) |-> OrderSubtotal(os[i])])
           IN  os[1].discount * total # loc[r].discount * OrderSubtotal(os[1])

\* C2: a successful checkout whose cart items span N vendor keys (None is a
\* key) creates exactly N orders, one per key, and every cart item becomes
\* exactly one order item, with the same product and quantity, in the order of
\* its product's vendor; nothing is dropped, duplicated or misplaced.
C2_OneOrderPerVendor ==
    \A r \in Requests :
        Committed(r) =>
            LET os == OrdersOf(r)
                items == loc[r].cart_items
                keys == {VendorOf(items[i]) : i \in 1..Len(items)}
                lines == UNION {{<<k, j>> : j \in 1..Len(os[k].items)} :
                                k \in 1..Len(os)}
            IN  /\ Len(os) = Cardinality(keys)
                /\ \A v \in keys :
                     Cardinality({k \in 1..Len(os) : os[k].vendor_id = v}) = 1
                /\ Cardinality(lines) = Len(items)
                /\ \A i \in 1..Len(items) :
                     \E ln \in lines :
                        LET oi == os[ln[1]].items[ln[2]]
                        IN  /\ oi.cart_item = items[i].id
                            /\ oi.product = items[i].product
                            /\ oi.quantity = items[i].quantity
                            /\ os[ln[1]].vendor_id = VendorOf(items[i])

\* a checkout of three groups, one of them holding two cart items
C2_Witness ==
    \E r \in Requests :
        /\ Committed(r)
        /\ Len(OrdersOf(r)) = 3
        /\ \E k \in 1..3 : Len(OrdersOf(r)[k].items) = 2
        /\ \E k \in 1..3 : OrdersOf(r)[k].vendor_id = None

\* C3: every order created by checkout has total = sum of its items' price *
\* quantity + shipping + tax - discount, with the values stored on that order;
\* without a coupon the discount is zero, so total = subtotal + shipping + tax.
C3_TotalFormula ==
    \A i \in 1..Len(orders) :
        LET o == orders[i]
        IN  /\ o.total = OrderSubtotal(o) + o.shipping + o.tax - o.discount
            /\ o.coupon = None =>
                 (o.discount = 0
                  /\ o.total = OrderSubtotal(o) + o.shipping + o.tax)

\* an order with two items, a discount, shipping and tax
C3_Witness ==
    \E i \in 1..Len(orders) :
        /\ Len(orders[i].items) = 2
        /\ orders[i].discount > 0
        /\ orders[i].shipping > 0
        /\ orders[i].tax > 0

\* C4: every order created by checkout has non-negative monetary fields and a
\* discount between zero and the checkout's total coupon discount; the last
\* vendor group, which receives the remainder, never gets a negative discount.
C4_DiscountWithinBounds ==
    \A i \in 1..Len(orders) :
        LET o == orders[i]
        IN  /\ o.total >= 0 /\ o.tax >= 0 /\ o.shipping >= 0
            /\ o.discount >= 0
            /\ Committed(o.req) => o.discount <= loc[o.req].discount

UsagesOf(r) == SelectSeq(usages, LAMBDA u : u.req = r)

\* C5: whenever checkout answers with a 400 response, nothing the request
\* made persists: no order, order item, coupon usage, stock change or cart
\* change, wherever in the flow the failure happens.
C5_FailedCheckoutPersistsNothing ==
    \A r \in Requests :
        (pc[r] = "done" /\ resp[r].status = 400)
            => (~committed[r] /\ OrdersOf(r) = <<>> /\ UsagesOf(r) = <<>>)

\* C6: the step that commits a successful checkout leaves the cart in
\* existence, active, checked out and without items; a checkout that begins on
\* that emptied cart is answered 400 'Cart is empty' at once and creates no
\* order.
C6_CartEmptiedThenRejected ==
    [][\A r \in Requests :
          /\ (pc[r] = "finalize" /\ pc'[r] = "respond")
                => (/\ cart'.exists /\ cart'.is_active /\ cart'.checked_out
                    /\ cartItems' = <<>>)
          /\ (pc[r] = "idle" /\ pc'[r] # "idle"
                /\ cart.checked_out /\ cartItems = <<>>)
                => (/\ pc'[r] = "done"
                    /\ resp'[r] = ErrorResp("Cart is empty")
                    /\ orders' = orders /\ usages' = usages)]_vars

\* one checkout succeeded, a second one began after its orders were committed
\* and was rejected; the orders are those of the first only
C6_Witness ==
    \E r1, r2 \in Requests :
        /\ pc[r1] = "done" /\ resp[r1].status = 201 /\ OrdersOf(r1) # <<>>
        /\ pc[r2] = "done" /\ resp[r2] = ErrorResp("Cart is empty")
        /\ ordersAtBegin[r2] = Len(OrdersOf(r1))
        /\ OrdersOf(r2) = <<>>
        /\ cart.exists /\ cart.checked_out /\ cartItems = <<>>

\* C7: a successful checkout that applied a coupon creates exactly one
\* CouponUsage row, whatever the number of orders, referencing the first order
\* created, which is the order of the first cart item's vendor group; a
\* checkout without coupon creates none.
C7_OneCouponUsage ==
    \A r \in Requests :
        Committed(r) =>
            IF loc[r].coupon # None /\ OrdersOf(r) # <<>>
            THEN /\ Len(UsagesOf(r)) = 1
                 /\ UsagesOf(r)[1].coupon = loc[r].coupon
                 /\ UsagesOf(r)[1].order = OrdersOf(r)[1].id
                 /\ \A k \in 1..Len(OrdersOf(r)) :
                        OrdersOf(r)[1].id <= OrdersOf(r)[k].id
                 /\ OrdersOf(r)[1].vendor_id = VendorOf(loc[r].cart_items[1])
            ELSE UsagesOf(r) = <<>>

\* a coupon checkout that produced three orders and one usage row
C7_Witness ==
    \E r \in Requests :
        /\ Committed(r)
        /\ loc[r].coupon # None
        /\ Len(OrdersOf(r)) >= 3
        /\ Len(usages) = 1

\* the cart item a stock write was made for
ItemOfWrite(r, w) ==
    CHOOSE it \in {loc[r].cart_items[i] : i \in 1..Len(loc[r].cart_items)} :
        it.id = w.cart_item

StockNonNegative ==
    /\ \A p \in Products : stock[p] >= 0
    /\ \A r \in Requests : \A i \in 1..Len(loc[r].stock_writes) :
          LET w == loc[r].stock_writes[i]
          IN  /\ w.stock >= 0
              /\ ItemOfWrite(r, w).stock < ItemOfWrite(r, w).quantity
                    => w.stock = 0

\* C8: product stock is never negative, in the database and in every write a
\* checkout prepares, under any interleaving of checkouts; a cart item of
\* quantity q read with stock s < q is written as stock 0, the checkout commits
\* and leaves that product's stock 0 (the product's last cart item decides).
C8_StockNeverNegative ==
    /\ []StockNonNegative
    /\ [][\A r \in Requests :
             (pc[r] = "finalize" /\ pc'[r] = "respond") =>
                \A i \in 1..Len(loc[r].cart_items) :
                    LET it == loc[r].cart_items[i]
                    IN  (/\ it.stock < it.quantity
                         /\ \A j \in (i + 1)..Len(loc[r].cart_items) :
                               loc[r].cart_items[j].product # it.product)
                           => stock'[it.product] = 0]_vars

\* a committed checkout that asked for more pieces than were in stock
C8_Witness ==
    \E r \in Requests :
        /\ Committed(r)
        /\ \E i \in 1..Len(loc[r].cart_items) :
              /\ loc[r].cart_items[i].stock < loc[r].cart_items[i].quantity
              /\ stock[loc[r].cart_items[i].product] = 0

\* C9: when two checkouts run simultaneously on the same cart at most one of
\* them creates orders, so no cart item ends up as an order item in orders of
\* two different checkouts.
C9_NoCartItemOrderedTwice ==
    \A i, j \in 1..Len(orders) :
        orders[i].req # orders[j].req =>
            \A a \in 1..Len(orders[i].items), b \in 1..Len(orders[j].items) :
                orders[i].items[a].cart_item # orders[j].items[b].cart_item

\* total subtotal of the cart as a checkout entering the transaction reads it
CartSubtotalNow == SumSeq(SubtotalsByVendor(ReadCartItems))

\* C10: checkout is answered 400 and mutates nothing (orders, stock, cart
\* items, coupon usages) when the user has no address, when there is no active
\* cart or the cart has no items, when the coupon code matches no coupon, and
\* when the coupon is not valid for the user and the total cart subtotal.
C10_PreconditionFailureMutatesNothing ==
    [][\A r \in Requests :
          LET rejected == /\ pc'[r] = "done"
                          /\ resp'[r].status = 400
                          /\ ~committed'[r]
                          /\ db' = db
              code == loc[r].coupon_code
          IN  /\ (/\ pc[r] = "idle" /\ pc'[r] # "idle"
                  /\ \/ addresses = <<>>
                     \/ ~cart.exists \/ ~cart.is_active
                     \/ cartItems = <<>>)
                    => rejected
              /\ (/\ pc[r] = "tx" /\ pc'[r] # "tx"
                  /\ code # None
                  /\ \/ code \notin CouponCodes
                     \/ ~IsValidForUser(code, CartSubtotalNow))
                    => rejected]_vars

\* two checkouts rejected for their coupon, one for an unknown code and one for
\* an ineligible coupon, with the cart untouched
C10_Witness ==
    \E r1, r2 \in Requests :
        /\ pc[r1] = "done" /\ resp[r1] = ErrorResp("Invalid coupon code.")
        /\ pc[r2] = "done" /\ resp[r2] = ErrorResp("Coupon is not valid.")
        /\ cartItems # <<>> /\ orders = <<>> /\ usages = <<>>
        /\ stock = [p \in Products |-> Catalog[p].stock]

(* ------------------------------ C11 ----------------------------------- *)
\* C11: a successful checkout response is the single order's payload,
\* unwrapped, if and only if exactly one order was created; for any other
\* number of created orders (none included) it is the wrapper "orders", and in
\* both shapes the payloads are the orders this checkout created, each once,
\* in creation order.
C11_ResponseShape ==
    \A r \in Requests :
        (pc[r] = "done" /\ resp[r].status = 201) =>
            /\ resp[r].kind \in {"order", "orders"}
            /\ resp[r].kind = "order" <=> Len(OrdersOf(r)) = 1
            /\ Len(resp[r].orders) = Len(OrdersOf(r))
            /\ \A i \in 1..Len(resp[r].orders) :
                   resp[r].orders[i].order = OrdersOf(r)[i].id

\* one checkout answered with a wrapper of two orders and a concurrent one,
\* which found the cart already emptied, answered with an empty wrapper
C11_Witness ==
    \E r1, r2 \in Requests :
        /\ pc[r1] = "done" /\ resp[r1].status = 201
        /\ resp[r1].kind = "orders" /\ Len(resp[r1].orders) = 2
        /\ pc[r2] = "done" /\ resp[r2].status = 201
        /\ resp[r2].kind = "orders" /\ resp[r2].orders = <<>>

(* ------------------------------ C12 ----------------------------------- *)
\* C12: when shipping is unsupported for the checkout's address, every group's
\* order is still created, with shipping 0, and every payload of the response
\* carries the shipping warning; when shipping is supported, no payload
\* carries a warning.
C12_ShippingWarningOnEveryPayload ==
    \A r \in Requests :
        (pc[r] = "done" /\ resp[r].status = 201) =>
            LET address == Head(ResolveAddress(addresses))
                unsupported == CalculateShipping(0, address).is_none
            IN  /\ Len(resp[r].orders) = Len(OrdersOf(r))
                /\ unsupported =>
                      /\ \A i \in 1..Len(OrdersOf(r)) :
                             OrdersOf(r)[i].shipping = 0
                      /\ \A i \in 1..Len(resp[r].orders) :
                             resp[r].orders[i].shipping_warning
                /\ ~unsupported =>
                      \A i \in 1..Len(resp[r].orders) :
                         ~resp[r].orders[i].shipping_warning

\* a checkout to an unsupported address answered with three payloads, all of
\* them warned, whose orders were created with shipping 0
C12_Witness ==
    \E r \in Requests :
        /\ pc[r] = "done" /\ resp[r].status = 201
        /\ ~Head(ResolveAddress(addresses)).supported
        /\ Len(OrdersOf(r)) = 3
        /\ \A i \in 1..3 : /\ OrdersOf(r)[i].shipping = 0
                            /\ resp[r].orders[i].shipping_warning

(* ----------------------- common/permissions.py -------------------------- *)
\* actor 0 is a client without credentials; any other actor is the user row
\* of that primary key, read when the request is authenticated
Actors == 0..Len(users)

IsAuthenticated(actor) == actor # 0

IsAdminOrManager(actor) ==
    /\ actor # 0
    /\ \/ users[actor].role \in {"admin", "manager"}
       \/ users[actor].is_staff
       \/ users[actor].is_superuser

\* the status a request stopped by its permission classes is answered with
\* (0 when it passes): 401 without credentials, 403 when a class denies
Denied(actor, permitted) ==
    IF ~IsAuthenticated(actor) THEN 401
    ELSE IF ~permitted THEN 403
    ELSE 0

Answer(op, actor, pk, status, detail) ==
    last' = [op |-> op, actor |-> actor, pk |-> pk, status |-> status,
             detail |-> detail, results |-> {}]

checkoutVars ==
    <<addresses, cart, cartItems, stock, orders, usages, nextItemId,
      nextOrderId, pc, loc, resp, committed, ordersAtBegin>>

(* ------------------- VendorAdminSignupView.create ----------------------- *)
FinishSignup(s, status, detail) ==
    /\ signups' = [signups EXCEPT ![s] = [NoSignup EXCEPT !.pc = "done"]]
    /\ Answer("signup", 0, 0, status, detail)

\* serializers.py 52-55 and views.py 34: is_valid runs validate_vendor_name
SignupValidate(s, vendor_name, email) ==
    /\ signups[s].pc = "idle"
    /\ IF \E v \in DOMAIN vendors :
              Fold(vendors[v].name) = Fold(vendor_name)
       THEN FinishSignup(s, 400, "Vendor name already exists.")
       ELSE /\ signups' = [signups EXCEPT ![s] =
                              [pc |-> "create_user",
                               vendor_name |-> vendor_name,
                               email |-> email, user |-> 0]]
            /\ UNCHANGED last
    /\ UNCHANGED <<checkoutVars, users, vendors, orderRows, edits>>

\* User.objects.create_user with an email another user has: no row is
\* created and the call raises, either the IntegrityError of the unique
\* column, which the view leaves uncaught (500), or a validation error of the
\* manager that names the field (400)
CreateUserFailures ==
    {[status |-> 500, detail |-> "IntegrityError"],
     [status |-> 400, detail |-> "email"]}

\* serializers.py 43 and 65-70: the email field carries no uniqueness
\* validator, so is_valid lets a taken email through to create_user
SignupCreateUser(s) ==
    /\ signups[s].pc = "create_user"
    /\ IF \E u \in DOMAIN users : users[u].email = signups[s].email
       THEN /\ \E failure \in CreateUserFailures :
                  FinishSignup(s, failure.status, failure.detail)
            /\ UNCHANGED users
       ELSE /\ users' = Append(users,
                               [email |-> signups[s].email,
                                role |-> "vendor_admin",
                                is_staff |-> FALSE, is_superuser |-> FALSE,
                                vendor |-> 0])
            /\ signups' = [signups EXCEPT ![s].pc = "create_vendor",
                                          ![s].user = Len(users) + 1]
            /\ UNCHANGED last
    /\ UNCHANGED <<checkoutVars, vendors, orderRows, edits>>

\* serializers.py 71-74 and models.py 13-31: Vendor.objects.create saves the
\* row with slug = slugify(name); name and slug are unique columns, and the
\* IntegrityError of a taken one leaves the view uncaught. The user was
\* created by an earlier statement with no transaction around the two.
SignupCreateVendor(s) ==
    /\ signups[s].pc = "create_vendor"
    /\ LET name == signups[s].vendor_name
           slug == Slugify(name)
           user == signups[s].user
       IN  IF \E v \in DOMAIN vendors :
                 vendors[v].name = name \/ vendors[v].slug = slug
           THEN /\ FinishSignup(s, 500, "IntegrityError")
                /\ UNCHANGED <<users, vendors>>
           ELSE /\ vendors' = Append(vendors,
                                     [name |-> name, slug |-> slug,
                                      status |-> "pending",
                                      rejection_reason |-> None])
                /\ users' = [users EXCEPT ![user].vendor = Len(vendors) + 1]
                /\ FinishSignup(s, 201, "")
    /\ UNCHANGED <<checkoutVars, orderRows, edits>>

Signup(s) ==
    \/ \E vendor_name \in VendorNames, email \in Emails :
          SignupValidate(s, vendor_name, email)
    \/ SignupCreateUser(s)
    \/ SignupCreateVendor(s)

(* --------------- VendorApprove/Reject/SuspendView.patch ----------------- *)
\* an id of every vendor row and one id that matches no row
VendorPks == 1..(Len(vendors) + 1)

\* variant of Approve: the rejection reason is left as it was
ApproveKeepReason(actor, pk) ==
    /\ LET denied == Denied(actor, IsAdminOrManager(actor))
       IN  IF denied # 0
           THEN Answer("approve", actor, pk, denied, "") /\ UNCHANGED vendors
           ELSE IF pk \notin DOMAIN vendors
           THEN /\ Answer("approve", actor, pk, 404, "Vendor not found.")
                /\ UNCHANGED vendors
           ELSE /\ vendors' = [vendors EXCEPT ![pk].status = "approved"]
                /\ Answer("approve", actor, pk, 200, "")
    /\ UNCHANGED <<checkoutVars, users, orderRows, signups, edits>>

\* vendors/views.py 119-130
Approve(actor, pk) ==
    /\ LET denied == Denied(actor, IsAdminOrManager(actor))
       IN  IF denied # 0
           THEN Answer("approve", actor, pk, denied, "") /\ UNCHANGED vendors
           ELSE IF pk \notin DOMAIN vendors
           THEN /\ Answer("approve", actor, pk, 404, "Vendor not found.")
                /\ UNCHANGED vendors
           ELSE /\ vendors' = [vendors EXCEPT
                                  ![pk].status = "approved",
                                  ![pk].rejection_reason = None]
                /\ Answer("approve", actor, pk, 200, "")
    /\ UNCHANGED <<checkoutVars, users, orderRows, signups, edits>>

\* vendors/views.py 133-145: reason = request.data.get("reason"), stored as
\* reason or ""
Reject(actor, pk, reason) ==
    /\ LET denied == Denied(actor, IsAdminOrManager(actor))
       IN  IF denied # 0
           THEN Answer("reject", actor, pk, denied, "") /\ UNCHANGED vendors
           ELSE IF pk \notin DOMAIN vendors
           THEN /\ Answer("reject", actor, pk, 404, "Vendor not found.")
                /\ UNCHANGED vendors
           ELSE /\ vendors' = [vendors EXCEPT
                                  ![pk].status = "rejected",
                                  ![pk].rejection_reason =
                                      IF reason = None THEN "" ELSE reason]
                /\ Answer("reject", actor, pk, 200, "")
    /\ UNCHANGED <<checkoutVars, users, orderRows, signups, edits>>

\* variant of Suspend: only an approved vendor can be suspended
SuspendApprovedOnly(actor, pk) ==
    /\ LET denied == Denied(actor, IsAdminOrManager(actor))
       IN  IF denied # 0
           THEN Answer("suspend", actor, pk, denied, "") /\ UNCHANGED vendors
           ELSE IF pk \notin DOMAIN vendors
           THEN /\ Answer("suspend", actor, pk, 404, "Vendor not found.")
                /\ UNCHANGED vendors
           ELSE IF vendors[pk].status # "approved"
           THEN /\ Answer("suspend", actor, pk, 400, "")
                /\ UNCHANGED vendors
           ELSE /\ vendors' = [vendors EXCEPT ![pk].status = "suspended"]
                /\ Answer("suspend", actor, pk, 200, "")
    /\ UNCHANGED <<checkoutVars, users, orderRows, signups, edits>>

\* vendors/views.py 148-158: only the status column is written
Suspend(actor, pk) ==
    /\ LET denied == Denied(actor, IsAdminOrManager(actor))
       IN  IF denied # 0
           THEN Answer("suspend", actor, pk, denied, "") /\ UNCHANGED vendors
           ELSE IF pk \notin DOMAIN vendors
           THEN /\ Answer("suspend", actor, pk, 404, "Vendor not found.")
                /\ UNCHANGED vendors
           ELSE /\ vendors' = [vendors EXCEPT ![pk].status = "suspended"]
                /\ Answer("suspend", actor, pk, 200, "")
    /\ UNCHANGED <<checkoutVars, users, orderRows, signups, edits>>

(* -------------- VendorMeView.update, VendorDetailView.update ------------- *)
\* request bodies of a partial update: a new name or none, alone or together
\* with status, rejection_reason and slug fields
Bodies ==
    [name : VendorNames \cup {None}, status : {None},
     rejection_reason : {None}, slug : {None}]
    \cup [name : VendorNames \cup {None}, status : {"approved"},
          rejection_reason : {""}, slug : {"forged"}]

\* serializers.py 28-39: VendorUpdateSerializer keeps the fields it declares
\* (name stands for them) and drops every other field of the body
ValidatedData(data) == [name |-> data.name]

\* the unique validator of the name field: no other row has this very name
NameIsUnique(pk, name) ==
    \A v \in DOMAIN vendors : v = pk \/ vendors[v].name # name

FinishEdit(e, op, actor, pk, status, detail) ==
    /\ edits' = [edits EXCEPT ![e] = NoEdit]
    /\ Answer(op, actor, pk, status, detail)

\* get_object, then is_valid, then the validated fields are set on the
\* loaded instance
LoadInstance(e, op, actor, pk, data) ==
    LET name == ValidatedData(data).name
    IN  IF name # None /\ ~NameIsUnique(pk, name)
        THEN FinishEdit(e, op, actor, pk, 400, "name")
        ELSE /\ edits' = [edits EXCEPT ![e] =
                   [pc |-> "save", op |-> op, actor |-> actor, pk |-> pk,
                    instance |-> IF name = None THEN vendors[pk]
                                 ELSE [vendors[pk] EXCEPT !.name = name]]]
             /\ UNCHANGED last

\* vendors/views.py 60-64, 77-83: the vendor linked to the requesting user
MeUpdateLoad(e, actor, data) ==
    /\ edits[e].pc = "idle"
    /\ LET denied == Denied(actor, TRUE)
       IN  IF denied # 0
           THEN FinishEdit(e, "me", actor, 0, denied, "")
           ELSE IF users[actor].vendor = 0
           THEN FinishEdit(e, "me", actor, 0, 404,
                           "No vendor linked to this user.")
           ELSE LoadInstance(e, "me", actor, users[actor].vendor, data)
    /\ UNCHANGED <<checkoutVars, users, vendors, orderRows, signups>>

\* vendors/views.py 87-96: RetrieveUpdateAPIView.update for admins
DetailUpdateLoad(e, actor, pk, data) ==
    /\ edits[e].pc = "idle"
    /\ LET denied == Denied(actor, IsAdminOrManager(actor))
       IN  IF denied # 0
           THEN FinishEdit(e, "detail", actor, pk, denied, "")
           ELSE IF pk \notin DOMAIN vendors
           THEN FinishEdit(e, "detail", actor, pk, 404, "Not found.")
           ELSE LoadInstance(e, "detail", actor, pk, data)
    /\ UNCHANGED <<checkoutVars, users, vendors, orderRows, signups>>

\* serializer.save(): Vendor.save (models.py 28-31) fills an empty slug from
\* the name, then every column of the row is written from the instance; a
\* name or slug another row holds raises IntegrityError
UpdateSave(e) ==
    /\ edits[e].pc = "save"
    /\ LET pk == edits[e].pk
           instance == edits[e].instance
           slug == IF instance.slug = "" THEN Slugify(instance.name)
                   ELSE instance.slug
       IN  IF \E v \in DOMAIN vendors :
                 /\ v # pk
                 /\ vendors[v].name = instance.name \/ vendors[v].slug = slug
           THEN /\ FinishEdit(e, edits[e].op, edits[e].actor, pk, 500,
                              "IntegrityError")
                /\ UNCHANGED vendors
           ELSE /\ vendors' = [vendors EXCEPT
                                  ![pk] = [instance EXCEPT !.slug = slug]]
                /\ FinishEdit(e, edits[e].op, edits[e].actor, pk, 200, "")
    /\ UNCHANGED <<checkoutVars, users, orderRows, signups>>

ProfileUpdate(e) ==
    \/ \E actor \in Actors, data \in Bodies : MeUpdateLoad(e, actor, data)
    \/ \E actor \in Actors, pk \in VendorPks, data \in Bodies :
          DetailUpdateLoad(e, actor, pk, data)
    \/ UpdateSave(e)

\* the checkout views are not used
InitCheckoutIdle ==
    /\ addresses = <<>>
    /\ cart = [exists |-> FALSE, is_active |-> FALSE, checked_out |-> FALSE]
    /\ cartItems = <<>>
    /\ nextItemId = 1
    /\ InitTables
    /\ InitRequests

\* one vendor has signed up: its row is as Vendor.objects.create left it and
\* its vendor admin is linked to it
InitProfile ==
    /\ InitCheckoutIdle
    /\ \E name \in VendorNames :
          vendors = <<[name |-> name, slug |-> Slugify(name),
                       status |-> "pending", rejection_reason |-> None]>>
    /\ users = Append(InitialUsers,
                      [email |-> "new@x.io", role |-> "vendor_admin",
                       is_staff |-> FALSE, is_superuser |-> FALSE,
                       vendor |-> 1])
    /\ orderRows = <<>>
    /\ InitRequestsIdle

NextProfile ==
    \/ \E actor \in Actors, pk \in DOMAIN vendors :
          \/ Approve(actor, pk)
          \/ Reject(actor, pk, "fraud")
          \/ Suspend(actor, pk)
    \/ \E e \in Edits : ProfileUpdate(e)

SpecProfile == InitProfile /\ [][NextProfile]_vars

(* ------------------------ OrderStatusUpdateView ------------------------- *)
\* variant of IsAdminManagerOrApprovedVendorAdmin: any linked vendor admin
IsAdminManagerOrVendorAdmin(actor) ==
    /\ actor # 0
    /\ \/ users[actor].role \in {"admin", "manager"}
       \/ users[actor].is_staff
       \/ users[actor].is_superuser
       \/ /\ users[actor].role = "vendor_admin"
          /\ users[actor].vendor # 0

\* permissions.py 40-54
IsAdminManagerOrApprovedVendorAdmin(actor) ==
    /\ actor # 0
    /\ \/ users[actor].role \in {"admin", "manager"}
       \/ users[actor].is_staff
       \/ users[actor].is_superuser
       \/ /\ users[actor].role = "vendor_admin"
          /\ users[actor].vendor # 0
          /\ vendors[users[actor].vendor].status = "approved"

\* Order.set_status: PENDING -> (PROCESSING) -> SHIPPED -> DELIVERED and
\* PENDING/PROCESSING -> CANCELLED
ValidTransition(from, to) ==
    <<from, to>> \in {<<"pending", "processing">>, <<"pending", "shipped">>,
                      <<"processing", "shipped">>, <<"shipped", "delivered">>,
                      <<"pending", "cancelled">>,
                      <<"processing", "cancelled">>}

\* an id of every order row and one id that matches no row
OrderPks == 1..(Len(orderRows) + 1)

\* request bodies of a status update
StatusBodies ==
    [status : {None, "shipped", "delivered"},
     tracking_number : {None}, admin_note : {None}]
    \cup [status : {None, "shipped", "delivered"},
          tracking_number : {"TRK1"}, admin_note : {"fragile"}]

\* variant of StatusUpdate: an order of another vendor is answered 403
StatusUpdateForbidden(actor, pk, data) ==
    /\ LET denied == Denied(actor, IsAdminManagerOrApprovedVendorAdmin(actor))
           row == orderRows[pk]
           order == [row EXCEPT
                        !.tracking_number =
                            IF data.tracking_number # None
                            THEN data.tracking_number ELSE @,
                        !.admin_note =
                            IF data.admin_note # None
                            THEN data.admin_note ELSE @]
       IN  IF denied # 0
           THEN /\ Answer("status", actor, pk, denied, "")
                /\ UNCHANGED orderRows
           ELSE IF pk \notin DOMAIN orderRows
           THEN /\ Answer("status", actor, pk, 404, "Order not found.")
                /\ UNCHANGED orderRows
           ELSE IF /\ users[actor].role = "vendor_admin"
                   /\ row.vendor_id # users[actor].vendor
           THEN /\ Answer("status", actor, pk, 403, "")
                /\ UNCHANGED orderRows
           ELSE IF data.status # None
           THEN IF ValidTransition(order.status, data.status)
                THEN /\ \E saved \in {row, order} :
                          orderRows' = [orderRows EXCEPT ![pk] =
                              [saved EXCEPT !.status = data.status]]
                     /\ Answer("status", actor, pk, 200, "Status updated.")
                ELSE /\ Answer("status", actor, pk, 400,
                               "Invalid status transition.")
                     /\ UNCHANGED orderRows
           ELSE /\ orderRows' = [orderRows EXCEPT ![pk] = order]
                /\ Answer("status", actor, pk, 200, "Order updated.")
    /\ UNCHANGED <<checkoutVars, users, vendors, signups, edits>>

\* variant of StatusUpdate: the instance is saved before set_status is tried
StatusUpdateSaveFirst(actor, pk, data) ==
    /\ LET denied == Denied(actor, IsAdminManagerOrApprovedVendorAdmin(actor))
           row == orderRows[pk]
           order == [row EXCEPT
                        !.tracking_number =
                            IF data.tracking_number # None
                            THEN data.tracking_number ELSE @,
                        !.admin_note =
                            IF data.admin_note # None
                            THEN data.admin_note ELSE @]
       IN  IF denied # 0
           THEN /\ Answer("status", actor, pk, denied, "")
                /\ UNCHANGED orderRows
           ELSE IF pk \notin DOMAIN orderRows
           THEN /\ Answer("status", actor, pk, 404, "Order not found.")
                /\ UNCHANGED orderRows
           ELSE IF /\ users[actor].role = "vendor_admin"
                   /\ row.vendor_id # users[actor].vendor
           THEN /\ Answer("status", actor, pk, 404, "Order not found.")
                /\ UNCHANGED orderRows
           ELSE IF data.status # None
           THEN IF ValidTransition(order.status, data.status)
                THEN /\ \E saved \in {row, order} :
                          orderRows' = [orderRows EXCEPT ![pk] =
                              [saved EXCEPT !.status = data.status]]
                     /\ Answer("status", actor, pk, 200, "Status updated.")
                ELSE /\ Answer("status", actor, pk, 400,
                               "Invalid status transition.")
                     /\ orderRows' = [orderRows EXCEPT ![pk] = order]
           ELSE /\ orderRows' = [orderRows EXCEPT ![pk] = order]
                /\ Answer("status", actor, pk, 200, "Order updated.")
    /\ UNCHANGED <<checkoutVars, users, vendors, signups, edits>>

\* orders/views.py 243-275. set_status saves the order when the transition
\* is valid; whether that save writes the tracking number and the note set
\* on the instance before it is the model's choice, so both are possible.
StatusUpdate(actor, pk, data) ==
    /\ LET denied == Denied(actor, IsAdminManagerOrApprovedVendorAdmin(actor))
           row == orderRows[pk]
           order == [row EXCEPT
                        !.tracking_number =
                            IF data.tracking_number # None
                            THEN data.tracking_number ELSE @,
                        !.admin_note =
                            IF data.admin_note # None
                            THEN data.admin_note ELSE @]
       IN  IF denied # 0
           THEN /\ Answer("status", actor, pk, denied, "")
                /\ UNCHANGED orderRows
           ELSE IF pk \notin DOMAIN orderRows
           THEN /\ Answer("status", actor, pk, 404, "Order not found.")
                /\ UNCHANGED orderRows
           ELSE IF /\ users[actor].role = "vendor_admin"
                   /\ row.vendor_id # users[actor].vendor
           THEN /\ Answer("status", actor, pk, 404, "Order not found.")
                /\ UNCHANGED orderRows
           ELSE IF data.status # None
           THEN IF ValidTransition(order.status, data.status)
                THEN /\ \E saved \in {row, order} :
                          orderRows' = [orderRows EXCEPT ![pk] =
                              [saved EXCEPT !.status = data.status]]
                     /\ Answer("status", actor, pk, 200, "Status updated.")
                ELSE /\ Answer("status", actor, pk, 400,
                               "Invalid status transition.")
                     /\ UNCHANGED orderRows
           ELSE /\ orderRows' = [orderRows EXCEPT ![pk] = order]
                /\ Answer("status", actor, pk, 200, "Order updated.")
    /\ UNCHANGED <<checkoutVars, users, vendors, signups, edits>>

(* -------------------- OrderListView, OrderDetailView -------------------- *)
\* orders/views.py 207-223 and 230-237: the same three-way queryset
OrderQueryset(actor) ==
    IF users[actor].is_staff \/ users[actor].role \in {"admin", "manager"}
    THEN DOMAIN orderRows
    ELSE IF users[actor].role = "vendor_admin"
    THEN {o \in DOMAIN orderRows :
             orderRows[o].vendor_id = users[actor].vendor}
    ELSE {o \in DOMAIN orderRows : orderRows[o].user = actor}

\* OrderListView.get: the ids of the listed orders
OrderList(actor) ==
    /\ LET denied == Denied(actor, TRUE)
       IN  IF denied # 0
           THEN Answer("list", actor, 0, denied, "")
           ELSE last' = [op |-> "list", actor |-> actor, pk |-> 0,
                         status |-> 200, detail |-> "",
                         results |-> OrderQueryset(actor)]
    /\ UNCHANGED <<checkoutVars, users, vendors, orderRows, signups, edits>>

\* OrderDetailView.get: the order of that id if the queryset holds it
OrderDetail(actor, pk) ==
    /\ LET denied == Denied(actor, TRUE)
       IN  IF denied # 0
           THEN Answer("detail", actor, pk, denied, "")
           ELSE IF pk \notin OrderQueryset(actor)
           THEN Answer("detail", actor, pk, 404, "Not found.")
           ELSE last' = [op |-> "detail", actor |-> actor, pk |-> pk,
                         status |-> 200, detail |-> "", results |-> {pk}]
    /\ UNCHANGED <<checkoutVars, users, vendors, orderRows, signups, edits>>

\* two vendors have signed up and the first was approved; a customer has
\* bought from the first vendor and its vendor admin from the platform; a
\* third vendor admin has lost its vendor (User.vendor is nullable and set to
\* null when the vendor is deleted)
InitOrders ==
    /\ InitCheckoutIdle
    /\ users = InitialUsers \o
          <<[email |-> "new@x.io", role |-> "vendor_admin",
             is_staff |-> FALSE, is_superuser |-> FALSE, vendor |-> 1],
            [email |-> "other@x.io", role |-> "vendor_admin",
             is_staff |-> FALSE, is_superuser |-> FALSE, vendor |-> 2],
            [email |-> "gone@x.io", role |-> "vendor_admin",
             is_staff |-> FALSE, is_superuser |-> FALSE, vendor |-> 0]>>
    /\ vendors =
          <<[name |-> "My Store", slug |-> "my-store",
             status |-> "approved", rejection_reason |-> None],
            [name |-> "!!!", slug |-> "",
             status |-> "pending", rejection_reason |-> None]>>
    /\ orderRows =
          <<[user |-> 5, vendor_id |-> 1, status |-> "pending",
             tracking_number |-> None, admin_note |-> None],
            [user |-> 6, vendor_id |-> 0, status |-> "pending",
             tracking_number |-> None, admin_note |-> None]>>
    /\ InitRequestsIdle

\* the users whose status updates are followed: no credentials, the admin,
\* the customer and the two vendor admins
StatusActors == {0, 1, 5, 6, 7}

NextOrders ==
    \/ \E pk \in DOMAIN vendors :
          \/ Approve(1, pk)
          \/ Reject(1, pk, None)
          \/ Suspend(1, pk)
    \/ \E actor \in StatusActors, pk \in OrderPks, data \in StatusBodies :
          StatusUpdate(actor, pk, data)
    \/ \E actor \in Actors : OrderList(actor)
    \/ \E actor \in StatusActors \cup {8}, pk \in OrderPks :
          OrderDetail(actor, pk)

SpecOrders == InitOrders /\ [][NextOrders]_vars

(* ---------------- signup and the vendor lifecycle ------------------------ *)
InitVendors == InitCheckoutIdle /\ InitDirectory

\* vendors sign up; the admin and the manager approve, reject and suspend
\* them; at every point the admin, the customer and the users created by
\* signup may try a status update
NextVendors ==
    \/ \E s \in Signups : Signup(s)
    \/ \E actor \in {1, 2}, pk \in VendorPks :
          \/ Approve(actor, pk)
          \/ \E reason \in Reasons : Reject(actor, pk, reason)
          \/ Suspend(actor, pk)
    \/ \E actor \in Actors \ {0, 2, 3, 4}, pk \in OrderPks,
          data \in StatusBodies :
          StatusUpdate(actor, pk, data)

SpecVendors == InitVendors /\ [][NextVendors]_vars

(* ------------------------------ C13 ----------------------------------- *)
\* C13: a status update by a vendor admin of an approved vendor on an order
\* that is not of that vendor (another vendor's or a platform order) is
\* answered 404 "Order not found.", the very response given for an id that
\* matches no order, never 403, and no order row changes.
C13_ForeignOrderLooksMissing ==
    [][LET actor == last'.actor
           pk == last'.pk
       IN  (/\ last'.op = "status" /\ actor # 0
            /\ users[actor].role = "vendor_admin"
            /\ ~users[actor].is_staff /\ ~users[actor].is_superuser
            /\ users[actor].vendor # 0
            /\ vendors[users[actor].vendor].status = "approved"
            /\ \/ pk \notin DOMAIN orderRows
               \/ orderRows[pk].vendor_id # users[actor].vendor
            /\ \E data \in StatusBodies : StatusUpdate(actor, pk, data))
           => /\ last'.status = 404
              /\ last'.detail = "Order not found."
              /\ last'.results = {}
              /\ orderRows' = orderRows]_vars

\* the admin of the second vendor, approved by then, was answered 404 for
\* the first vendor's order, which is as the checkout created it
C13_Witness ==
    /\ last.op = "status" /\ last.actor = 7 /\ last.pk = 1
    /\ last.status = 404 /\ last.detail = "Order not found."
    /\ vendors[2].status = "approved"
    /\ orderRows[1].vendor_id = 1
    /\ orderRows[1].status = "pending"
    /\ orderRows[1].tracking_number = None

(* ------------------------------ C14 ----------------------------------- *)
\* C14: a status update that reaches set_status with a transition that is
\* not valid is answered 400 "Invalid status transition.", which is neither
\* the not-found (404) nor the forbidden (403) response, and the order row
\* stays as it was: the status is not changed and a tracking number or admin
\* note of the same request is not stored.
C14_InvalidTransitionChangesNothing ==
    [][LET actor == last'.actor
           pk == last'.pk
       IN  /\ (/\ last'.op = "status" /\ last'.status = 400
                /\ \E data \in StatusBodies : StatusUpdate(actor, pk, data))
               => /\ last'.detail = "Invalid status transition."
                  /\ orderRows' = orderRows
           /\ \A data \in StatusBodies :
                  (/\ last'.op = "status" /\ pk \in DOMAIN orderRows
                   /\ data.status # None
                   /\ ~ValidTransition(orderRows[pk].status, data.status)
                   /\ StatusUpdate(actor, pk, data))
                  => /\ orderRows' = orderRows
                     /\ last'.status \in {400, 401, 403, 404}
                     /\ IsAdminOrManager(actor) => last'.status = 400]_vars

\* the admin was answered 400 for the first order, which is shipped and
\* holds no tracking number or note
C14_Witness ==
    /\ last.op = "status" /\ last.actor = 1 /\ last.pk = 1
    /\ last.status = 400 /\ last.detail = "Invalid status transition."
    /\ orderRows[1].status = "shipped"
    /\ orderRows[1].tracking_number = None
    /\ orderRows[1].admin_note = None

(* ------------------------------ C15 ----------------------------------- *)
\* C15: the order list and the order detail view show an admin, manager or
\* staff user every order, a vendor admin of an approved vendor exactly the
\* orders of that vendor, and every other user exactly the orders that user
\* owns.
C15_VisibilityMatrix ==
    [][LET actor == last'.actor
           pk == last'.pk
           matrix ==
               IF \/ users[actor].is_staff
                  \/ users[actor].role \in {"admin", "manager"}
               THEN DOMAIN orderRows
               ELSE IF /\ users[actor].role = "vendor_admin"
                       /\ users[actor].vendor # 0
                       /\ vendors[users[actor].vendor].status = "approved"
               THEN {o \in DOMAIN orderRows :
                        orderRows[o].vendor_id = users[actor].vendor}
               ELSE {o \in DOMAIN orderRows : orderRows[o].user = actor}
       IN  /\ (last'.op = "list" /\ actor # 0 /\ OrderList(actor))
               => last'.results = matrix
           /\ (last'.op = "detail" /\ actor # 0 /\ OrderDetail(actor, pk))
               => (last'.status = 200 <=> pk \in matrix)]_vars

(* ------------------------------ C16 ----------------------------------- *)
\* C16: in every state reached by signups, approvals, rejections and
\* suspensions, a status update by a vendor admin gets past the permission
\* check exactly when that user's vendor has status approved at that moment
\* (so not while it is pending, rejected or suspended, whatever it was
\* before), and a status update by a customer is always denied.
C16_AcceptedOnlyWhileApproved ==
    [][LET actor == last'.actor
           pk == last'.pk
       IN  (/\ last'.op = "status" /\ actor # 0
            /\ ~users[actor].is_staff /\ ~users[actor].is_superuser
            /\ \E data \in StatusBodies : StatusUpdate(actor, pk, data))
           => /\ users[actor].role = "vendor_admin" =>
                    (last'.status # 403 <=>
                        /\ users[actor].vendor # 0
                        /\ vendors[users[actor].vendor].status = "approved")
              /\ users[actor].role = "customer" => last'.status = 403]_vars

\* a vendor admin created by signup was denied, and the vendor, rejected once
\* for fraud and suspended since, is not approved
C16_Witness ==
    /\ last.op = "status" /\ last.status = 403
    /\ last.actor > Len(InitialUsers)
    /\ users[last.actor].role = "vendor_admin"
    /\ users[last.actor].vendor # 0
    /\ vendors[users[last.actor].vendor].status = "suspended"
    /\ vendors[users[last.actor].vendor].rejection_reason = "fraud"

(* ------------------------------ C17 ----------------------------------- *)
\* C17: approve, reject and suspend requested by an admin or a manager on a
\* vendor that exists succeed whatever the vendor's status is and leave it
\* approved, rejected and suspended respectively, no other vendor changing;
\* on an id that matches no vendor each answers 404 and changes no vendor.
C17_LifecycleFromEveryStatus ==
    [][LET actor == last'.actor
           pk == last'.pk
           target == IF last'.op = "approve" THEN "approved"
                     ELSE IF last'.op = "reject" THEN "rejected"
                     ELSE "suspended"
       IN  (/\ last'.op \in {"approve", "reject", "suspend"}
            /\ actor # 0 /\ users[actor].role \in {"admin", "manager"}
            /\ \/ last'.op = "approve" /\ Approve(actor, pk)
               \/ last'.op = "reject"
                  /\ \E reason \in Reasons : Reject(actor, pk, reason)
               \/ last'.op = "suspend" /\ Suspend(actor, pk))
           => IF pk \in DOMAIN vendors
              THEN /\ last'.status = 200
                   /\ vendors[pk].status
                          \in {"pending", "approved", "rejected", "suspended"}
                   /\ vendors'[pk].status = target
                   /\ \A v \in DOMAIN vendors \ {pk} :
                          vendors'[v] = vendors[v]
                   /\ DOMAIN vendors' = DOMAIN vendors
              ELSE /\ last'.status = 404
                   /\ vendors' = vendors]_vars

\* a manager suspended a vendor that had been rejected for fraud, next to a
\* vendor that is approved
C17_Witness ==
    /\ last.op = "suspend" /\ last.actor = 2 /\ last.status = 200
    /\ last.pk \in DOMAIN vendors
    /\ vendors[last.pk].status = "suspended"
    /\ vendors[last.pk].rejection_reason = "fraud"
    /\ \E v \in DOMAIN vendors : vendors[v].status = "approved"

(* ------------------------------ C18 ----------------------------------- *)
\* C18: an approval that succeeds sets the vendor's rejection_reason to
\* null, a rejection that succeeds stores the reason of the request, or the
\* empty string when the request has none; and in every state reached by
\* signups, approvals, rejections and suspensions a vendor whose status is
\* approved has a null rejection_reason.
C18_ApprovedHasNoRejectionReason ==
    /\ [](\A v \in DOMAIN vendors :
             vendors[v].status = "approved" =>
                 vendors[v].rejection_reason = None)
    /\ [][LET actor == last'.actor
              pk == last'.pk
          IN  /\ (/\ last'.op = "approve" /\ last'.status = 200
                   /\ Approve(actor, pk))
                  => vendors'[pk].rejection_reason = None
              /\ \A reason \in Reasons :
                     (/\ last'.op = "reject" /\ last'.status = 200
                      /\ Reject(actor, pk, reason))
                     => vendors'[pk].rejection_reason =
                            IF reason = None THEN "" ELSE reason]_vars

\* an approval was answered last and the approved vendor has no rejection
\* reason, next to a vendor rejected for fraud and then suspended
C18_Witness ==
    /\ last.op = "approve" /\ last.status = 200
    /\ last.pk \in DOMAIN vendors
    /\ vendors[last.pk].status = "approved"
    /\ vendors[last.pk].rejection_reason = None
    /\ \E v \in DOMAIN vendors :
          /\ vendors[v].status = "suspended"
          /\ vendors[v].rejection_reason = "fraud"

(* ------------------------------ C19 ----------------------------------- *)
\* C19: a vendor's status and rejection_reason change only in an approve,
\* reject or suspend request of an authenticated admin, manager, staff user
\* or superuser; such a request of a customer or a vendor admin is answered
\* 403 and one without credentials 401, the vendors staying as they are; and
\* a profile update through the vendor-me or the vendor-detail endpoint
\* changes no vendor's status, rejection_reason or slug.
C19_StatusOnlyThroughLifecycle ==
    [][LET actor == last'.actor
           pk == last'.pk
           lifecycle ==
               /\ last'.op \in {"approve", "reject", "suspend"}
               /\ \/ Approve(actor, pk)
                  \/ \E reason \in Reasons : Reject(actor, pk, reason)
                  \/ Suspend(actor, pk)
       IN  /\ (\E v \in DOMAIN vendors :
                  \/ vendors'[v].status # vendors[v].status
                  \/ vendors'[v].rejection_reason
                        # vendors[v].rejection_reason)
               => /\ lifecycle /\ last'.status = 200 /\ actor # 0
                  /\ \/ users[actor].role \in {"admin", "manager"}
                     \/ users[actor].is_staff
                     \/ users[actor].is_superuser
           /\ (lifecycle /\ actor = 0)
               => last'.status = 401 /\ vendors' = vendors
           /\ (/\ lifecycle /\ actor # 0
                /\ users[actor].role \in {"customer", "vendor_admin"}
                /\ ~users[actor].is_staff /\ ~users[actor].is_superuser)
               => last'.status = 403 /\ vendors' = vendors
           /\ (\E e \in Edits : edits' # edits /\ ProfileUpdate(e))
               => \A v \in DOMAIN vendors :
                     /\ vendors'[v].status = vendors[v].status
                     /\ vendors'[v].rejection_reason
                           = vendors[v].rejection_reason
                     /\ vendors'[v].slug = vendors[v].slug]_vars

(* ------------------------------ C20 ----------------------------------- *)
\* C20: a signup request creates a user with role vendor_admin together
\* with a pending vendor the user is linked to, or creates neither: once the
\* request that created a user is over, that user is linked to a vendor that
\* exists.
C20_NoSignupUserWithoutVendor ==
    \A u \in DOMAIN users :
        u > Len(InitialUsers) =>
            \/ \E s \in Signups :
                  signups[s].pc = "create_vendor" /\ signups[s].user = u
            \/ /\ users[u].role = "vendor_admin"
               /\ users[u].vendor \in DOMAIN vendors

(* ------------------------------ C21 ----------------------------------- *)
\* C21: a signup whose vendor name is the name of an existing vendor is
\* answered 400 with the error of the vendor_name field, and a signup whose
\* email is the email of an existing user is answered 400 with the error of
\* the email field; neither creates a user or a vendor.
C21_DuplicateSignupRejected ==
    [][\A s \in Signups :
          /\ (/\ signups[s].pc = "idle"
               /\ signups'[s].pc # "idle"
               /\ \E vendor_name \in VendorNames, email \in Emails :
                     /\ \E v \in DOMAIN vendors :
                           vendors[v].name = vendor_name
                     /\ SignupValidate(s, vendor_name, email))
                 => /\ signups'[s].pc = "done"
                    /\ last'.op = "signup"
                    /\ last'.status = 400
                    /\ last'.detail = "Vendor name already exists."
                    /\ users' = users
                    /\ vendors' = vendors
          /\ (/\ signups[s].pc = "create_user"
               /\ \E u \in DOMAIN users : users[u].email = signups[s].email
               /\ SignupCreateUser(s))
                 => /\ signups'[s].pc = "done"
                    /\ last'.op = "signup"
                    /\ last'.status = 400
                    /\ last'.detail = "email"
                    /\ users' = users
                    /\ vendors' = vendors]_vars

(* ------------------------------ C22 ----------------------------------- *)
\* num / den rounded to the nearest integer, a half rounded up
HalfUp(num, den) == (2 * num + den) \div (2 * den)

\* C22: the orders of a checkout with a coupon follow the vendor groups in
\* order of first occurrence in the cart; every order but the last carries
\* discount * group_subtotal / total_subtotal rounded to the cent half-up, and
\* the last carries the discount minus what the others carry.
C22_HalfUpAllocation ==
    \A r \in Requests :
        (Committed(r) /\ loc[r].coupon # None /\ loc[r].discount > 0)
            => LET os == OrdersOf(r)
                   ids == VendorIds(loc[r].cart_items)
                   n == Len(os)
                   total == SumSeq([i \in 1..n |-> OrderSubtotal(os[i])])
               IN  /\ n = Len(ids)
                   /\ \A k \in 1..n : os[k].vendor_id = ids[k]
                   /\ \A k \in 1..(n - 1) :
                         os[k].discount
                            = HalfUp(loc[r].discount * OrderSubtotal(os[k]),
                                     total)
                   /\ n > 0 =>
                         os[n].discount
                            = loc[r].discount
                                - SumSeq([k \in 1..(n - 1) |-> os[k].discount])

(* ------------------------------ C23 ----------------------------------- *)
\* C23: a checkout answered 201 has created at least one order, also when
\* another request empties the cart between the emptiness check and the
\* grouping of the cart items.
C23_SuccessMeansAnOrder ==
    \A r \in Requests :
        (pc[r] = "done" /\ resp[r].status = 201) => OrdersOf(r) # <<>>

(* ------------------------------ C24 ----------------------------------- *)
\* total quantity of product p over the cart items a checkout read
QuantityOf(items, p) ==
    SumSeq([i \in 1..Len(items) |->
               IF items[i].product = p THEN items[i].quantity ELSE 0])

\* C24: the step that commits a checkout leaves every product with stock
\* max(stock before - total quantity of the product over all cart items of
\* the checkout, 0), also when several cart items are of the same product
\* (no other request having changed the stock since the checkout read it).
C24_EveryDecrementApplied ==
    [][\A r \in Requests :
          (/\ pc[r] = "finalize" /\ pc'[r] = "respond"
           /\ \A i \in 1..Len(loc[r].cart_items) :
                 loc[r].cart_items[i].stock
                    = stock[loc[r].cart_items[i].product])
             => \A p \in Products :
                   stock'[p]
                      = Max(stock[p] - QuantityOf(loc[r].cart_items, p), 0)]_vars

(* ------------------- signup and profile updates ------------------------- *)
\* the vendor "Shop" has signed up before: its row is as
\* Vendor.objects.create left it and its vendor admin is linked to it
InitNames ==
    /\ InitCheckoutIdle
    /\ vendors = <<[name |-> "Shop", slug |-> "shop", status |-> "pending",
                    rejection_reason |-> None]>>
    /\ users = Append(InitialUsers,
                      [email |-> "shop@x.io", role |-> "vendor_admin",
                       is_staff |-> FALSE, is_superuser |-> FALSE,
                       vendor |-> 1])
    /\ orderRows = <<>>
    /\ InitRequestsIdle

\* further vendors sign up while the vendor admins rename their own vendor
\* and the admin renames any vendor
NextNames ==
    \/ \E s \in Signups : Signup(s)
    \/ \E e \in Edits, data \in {d \in Bodies : d.status = None} :
          \/ \E actor \in Actors \ DOMAIN InitialUsers :
                MeUpdateLoad(e, actor, data)
          \/ \E pk \in DOMAIN vendors : DetailUpdateLoad(e, 1, pk, data)
    \/ \E e \in Edits : UpdateSave(e)

SpecNames == InitNames /\ [][NextNames]_vars

(* ------------------------------ C25 ----------------------------------- *)
\* C25: after any sequence of signups and profile updates no two vendors
\* have names that are equal up to letter case (names are stored stripped).
C25_NamesUniqueIgnoringCase ==
    \A v, w \in DOMAIN vendors :
        v # w => Fold(vendors[v].name) # Fold(vendors[w].name)

(* ------------------------------ C26 ----------------------------------- *)
\* C26: a vendor admin with no linked vendor is listed no order of another
\* user and is shown no order of another user by the detail view, platform
\* orders (orders without vendor) included.
C26_UnlinkedVendorAdminSeesOwnOnly ==
    [][LET actor == last'.actor
           pk == last'.pk
       IN  (/\ last'.op \in {"list", "detail"}
            /\ actor # 0
            /\ users[actor].role = "vendor_admin"
            /\ ~users[actor].is_staff
            /\ users[actor].vendor = 0
            /\ OrderList(actor) \/ OrderDetail(actor, pk))
              => \A o \in last'.results : orderRows[o].user = actor]_vars

====
